---- MODULE Spec2Model ----
(***************************************************************************)
(* Model of manual_parallel_transform_reduce (src/main.cpp:23-73): a       *)
(* fork-join transform-then-reduce over K contiguous blocks, one           *)
(* std::thread per block, followed by a sequential in-order merge of the   *)
(* per-block partial results.                                              *)
(*                                                                         *)
(* Iterators are modelled as 0-based offsets from `first`; the vector      *)
(* `partials` and the vector `threads` are TLA+ sequences, so element i of *)
(* the code is element i+1 of the sequence.                                *)
(*                                                                         *)
(* The template is instantiated with three reduction specs:                *)
(*   "plus"   T = integer, reduce_op = +,  transform_op = square           *)
(*   "times"  T = integer, reduce_op = *,  transform_op = square           *)
(*   "concat" T = string,  reduce_op = concatenation, transform_op = the   *)
(*            one-character string of the element                          *)
(* std::transform_reduce without an execution policy is modelled as the    *)
(* in-order fold that the sequential overload performs.                    *)
(*                                                                         *)
(* Spec and FairSpec run one call of the engine on arbitrary inputs.       *)
(* MainSpec runs main (src/main.cpp:75-175): the loop over sizes, the      *)
(* three reference runs and the sweep over K; there an engine call is one  *)
(* step that yields ManualReduce, and measured times are drawn from Times. *)
(***************************************************************************)
EXTENDS Integers, Sequences, FiniteSets, TLC

\* ---------------------------------------------------------------- bounds
MaxLen == 3
MaxVal == 2
MaxK == 6
MaxInit == 1
MaxHw == 2
MaxTime == 1

\* the worked example of the specification, section 8
Example == <<1, 2, 3, 4, 5>>

VARIABLES
    data,          \* the range [first, last)
    init,          \* parameter init
    op,            \* which reduce_op / transform_op / T the template is instantiated with
    reqK,          \* parameter K as passed by the caller
    pc,            \* position of the calling thread
    n,             \* std::distance(first, last)
    K,             \* local K (clamped)
    partials,      \* std::vector<T> partials(K)
    threads,       \* std::vector<std::thread> threads, with each worker's closure, position
                   \* and the offsets of the range it has dereferenced
    total, base, rem,
    block_start,
    i,             \* spawn loop index
    joined,        \* number of threads the join loop has passed
    result,        \* T result
    merged,        \* number of partials the merge loop has folded
    ret,           \* the returned value
    slotWrites,    \* per slot, the workers that have stored into it, in order
    slotReads,     \* reads of partial slots: who, which slot, how many writes it had seen
    combineCalls,  \* applications of reduce_op so far
    transformCalls,\* applications of transform_op so far
    \* ---- main (src/main.cpp:75-175)
    mpc,           \* position of main
    hint,          \* what std::thread::hardware_concurrency() returns
    hw,            \* unsigned hw
    rng,           \* std::mt19937_64 rng: the number of values drawn since it was seeded
    seedings,      \* how many times rng has been seeded
    segments,      \* per size generated so far, the rng state before and after its generation
    sizeIdx,       \* position of the range-for over sizes (1-based)
    baseNo,        \* which of the three reference blocks runs next
    sweepK,        \* the loop variable K of the sweep
    best_time,
    best_K,
    calls,         \* the K values the engine was invoked with for the current size
    sink,          \* volatile T sink
    out            \* the lines written to std::cout since the last size header

engineVars == <<data, init, op, reqK, pc, n, K, partials, threads, total, base, rem,
                block_start, i, joined, result, merged, ret, slotWrites, slotReads,
                combineCalls, transformCalls>>

mainVars == <<mpc, hint, hw, rng, seedings, segments, sizeIdx, baseNo, sweepK,
              best_time, best_K, calls, sink, out>>

vars == <<engineVars, mainVars>>

\* ------------------------------------------------- the reduction spec
Ops == {"plus", "times", "concat"}

\* T{} : the value-initialised T
TZero(o) == IF o = "concat" THEN << >> ELSE 0

\* reduce_op(a, b)
Op(o, a, b) ==
    CASE o = "plus" -> a + b
      [] o = "times" -> a * b
      [] o = "concat" -> a \o b

\* transform_op(x)
F(o, x) == IF o = "concat" THEN <<x>> ELSE x * x

RECURSIVE TransformReduce(_, _, _)
\* std::transform_reduce(first, last, seed, reduce_op, transform_op), sequential overload
TransformReduce(s, seed, o) ==
    IF s = << >> THEN seed
    ELSE TransformReduce(Tail(s), Op(o, seed, F(o, Head(s))), o)

\* ------------------------------------------------------------- inputs
RECURSIVE SeqsUpTo(_)
SeqsUpTo(len) ==
    IF len = 0 THEN {<< >>}
    ELSE LET shorter == SeqsUpTo(len - 1)
         IN  shorter \cup {Append(s, v) : s \in {t \in shorter : Len(t) = len - 1}, v \in 1..MaxVal}

Inputs == SeqsUpTo(MaxLen) \cup {Example}

InitValues(o) == IF o = "concat" THEN {<< >>, <<0>>} ELSE 0..MaxInit

\* main is not running: the engine is called directly
MainIdle ==
    /\ mpc = "idle"
    /\ hint = 0 /\ hw = 0
    /\ rng = 0 /\ seedings = 0 /\ segments = << >>
    /\ sizeIdx = 0 /\ baseNo = 0 /\ sweepK = 0
    /\ best_time = 0 /\ best_K = 0
    /\ calls = << >>
    /\ sink = 0
    /\ out = << >>

Init ==
    /\ data \in Inputs
    /\ op \in Ops
    /\ init \in InitValues(op)
    /\ reqK \in 0..MaxK
    /\ pc = "call"
    /\ n = 0
    /\ K = reqK
    /\ partials = << >>
    /\ threads = << >>
    /\ total = 0 /\ base = 0 /\ rem = 0
    /\ block_start = 0
    /\ i = 0
    /\ joined = 0
    /\ result = TZero(op)
    /\ merged = 0
    /\ ret = TZero(op)
    /\ slotWrites = << >>
    /\ slotReads = {}
    /\ combineCalls = 0
    /\ transformCalls = 0
    /\ MainIdle

\* ------------------------------------------------------------ helpers
EarlyResultZero(v) == TZero(op)

\* line 32: return init
EarlyResult(v) == v

ClampNone(len, k) == k

\* lines 34-35: if (n < K) K = n
ClampK(len, k) == IF len < k THEN len ELSE k

BlockSizeNoRem(idx, b, r) == b

BlockSizeTail(idx, b, r) == b + (IF idx >= K - r THEN 1 ELSE 0)

\* line 48: block_size = base + (i < rem ? 1 : 0)
BlockSize(idx, b, r) == b + (IF idx < r THEN 1 ELSE 0)

NextBlockStartStuck(bs, be) == bs

\* line 62: block_start = block_end
NextBlockStart(bs, be) == be

BlockSeedInit(o, v) == v

\* line 58: the seed T{} of the per-block std::transform_reduce
BlockSeed(o, v) == TZero(o)

WorkerSlotZero(idx) == 0

\* line 56: the slot partials[i] the worker with captured index i stores into
WorkerSlot(idx) == idx

JoinableAlways(th) == TRUE

JoinableNever(th) == FALSE

\* line 66: th.join() returns once the thread has finished
Joinable(th) == th.st = "finished"

MergeSlotReverse(m) == Len(partials) - 1 - m

\* line 69: the range-for visits partials in index order
MergeSlot(m) == m

ReadRangeFromFirst(bs, be) == 0..(be - 1)

\* lines 56-59: the offsets std::transform_reduce(bs, be, ...) dereferences
ReadRange(bs, be) == bs..(be - 1)

\* the elements the worker reads, in order
Block(bs, be) ==
    LET rr == ReadRange(bs, be)
    IN  IF rr = {} THEN << >>
        ELSE LET lo == CHOOSE x \in rr : \A y \in rr : x <= y
                 hi == CHOOSE x \in rr : \A y \in rr : x >= y
             IN  SubSeq(data, lo + 1, hi + 1)

EmplaceByReference(ths, rec) ==
    [w \in 1..(Len(ths) + 1) |->
        IF w <= Len(ths)
        THEN [ths[w] EXCEPT !.i = rec.i, !.bs = rec.bs, !.be = rec.be]
        ELSE rec]

\* line 55: threads.emplace_back(...) with i, bs, be captured by copy
Emplace(ths, rec) == Append(ths, rec)

AllocPartialsRequested(k) == [s \in 1..reqK |-> TZero(op)]

\* line 37: std::vector<T> partials(K), K value-initialised slots
AllocPartials(k) == [s \in 1..k |-> TZero(op)]

RECURSIVE BlockStartOf(_, _, _)
\* lines 45-63: the value of block_start when iteration idx of the spawn loop begins
BlockStartOf(idx, b, r) ==
    IF idx = 0 THEN 0
    ELSE NextBlockStart(BlockStartOf(idx - 1, b, r),
                        BlockStartOf(idx - 1, b, r) + BlockSize(idx - 1, b, r))

RECURSIVE MergeFold(_, _, _)
\* lines 68-70: result = init; for (v : partials) result = reduce_op(result, v)
MergeFold(o, acc, ps) ==
    IF ps = << >> THEN acc ELSE MergeFold(o, Op(o, acc, Head(ps)), Tail(ps))

\* lines 23-73: the value one call returns once every worker has stored its partial
ManualReduce(s, v, o, k) ==
    IF Len(s) <= 0 \/ k = 0 THEN EarlyResult(v)
    ELSE LET kk == ClampK(Len(s), k)
             b == Len(s) \div kk
             r == Len(s) % kk
             ps == [j \in 1..kk |->
                      TransformReduce(SubSeq(s, BlockStartOf(j - 1, b, r) + 1,
                                             BlockStartOf(j - 1, b, r) + BlockSize(j - 1, b, r)),
                                      BlockSeed(o, v), o)]
         IN  MergeFold(o, v, ps)

\* ------------------------------------------------------------ actions
\* lines 30-32: degenerate call
EarlyReturn ==
    /\ pc = "call"
    /\ (Len(data) <= 0 \/ K = 0)
    /\ n' = Len(data)
    /\ ret' = EarlyResult(init)
    /\ pc' = "done"
    /\ UNCHANGED <<data, init, op, reqK, K, partials, threads, total, base, rem,
                   block_start, i, joined, result, merged, slotWrites, slotReads,
                   combineCalls, transformCalls>>
    /\ UNCHANGED mainVars

\* lines 30-45: clamp K, allocate partials, compute base and rem
Enter ==
    /\ pc = "call"
    /\ ~(Len(data) <= 0 \/ K = 0)
    /\ n' = Len(data)
    /\ K' = ClampK(Len(data), K)
    /\ partials' = AllocPartials(K')
    /\ slotWrites' = [s \in 1..Len(partials') |-> << >>]
    /\ threads' = << >>
    /\ total' = Len(data)
    /\ base' = Len(data) \div K'
    /\ rem' = Len(data) % K'
    /\ block_start' = 0
    /\ i' = 0
    /\ pc' = "spawn"
    /\ UNCHANGED <<data, init, op, reqK, joined, result, merged, ret, slotReads,
                   combineCalls, transformCalls>>
    /\ UNCHANGED mainVars

\* lines 47-63: one iteration of the spawn loop
Spawn ==
    /\ pc = "spawn"
    /\ i < K
    /\ LET block_size == BlockSize(i, base, rem)
           block_end == block_start + block_size
       IN  /\ threads' = Emplace(threads, [i |-> i, bs |-> block_start, be |-> block_end,
                                           seed |-> BlockSeed(op, init), acc |-> TZero(op),
                                           rd |-> {}, st |-> "running"])
           /\ block_start' = NextBlockStart(block_start, block_end)
    /\ i' = i + 1
    /\ pc' = IF i + 1 < K THEN "spawn" ELSE "join"
    /\ UNCHANGED <<data, init, op, reqK, n, K, partials, total, base, rem, joined,
                   result, merged, ret, slotWrites, slotReads, combineCalls, transformCalls>>
    /\ UNCHANGED mainVars

\* lines 56-59, right-hand side: the worker folds its block
WorkerCompute(w) ==
    /\ w \in 1..Len(threads)
    /\ threads[w].st = "running"
    /\ LET th == threads[w]
           blk == Block(th.bs, th.be)
       IN  /\ threads' = [threads EXCEPT ![w].acc = TransformReduce(blk, th.seed, op),
                                         ![w].rd = ReadRange(th.bs, th.be),
                                         ![w].st = "computed"]
           /\ combineCalls' = combineCalls + Len(blk)
           /\ transformCalls' = transformCalls + Len(blk)
    /\ UNCHANGED <<data, init, op, reqK, pc, n, K, partials, total, base, rem,
                   block_start, i, joined, result, merged, ret, slotWrites, slotReads>>
    /\ UNCHANGED mainVars

\* line 56, assignment: the worker stores its partial and the thread ends
WorkerStore(w) ==
    /\ w \in 1..Len(threads)
    /\ threads[w].st = "computed"
    /\ LET th == threads[w]
           slot == WorkerSlot(th.i) + 1
       IN  /\ partials' = [partials EXCEPT ![slot] = th.acc]
           /\ slotWrites' = [slotWrites EXCEPT ![slot] = Append(@, th.i)]
    /\ threads' = [threads EXCEPT ![w].st = "finished"]
    /\ UNCHANGED <<data, init, op, reqK, pc, n, K, total, base, rem, block_start, i,
                   joined, result, merged, ret, slotReads, combineCalls, transformCalls>>
    /\ UNCHANGED mainVars

\* lines 65-68: th.join() for the next thread; after the last one, result = init
Join ==
    /\ pc = "join"
    /\ joined < Len(threads)
    /\ Joinable(threads[joined + 1])
    /\ joined' = joined + 1
    /\ IF joined + 1 = Len(threads)
       THEN /\ pc' = "merge"
            /\ result' = init
            /\ merged' = 0
       ELSE UNCHANGED <<pc, result, merged>>
    /\ UNCHANGED <<data, init, op, reqK, n, K, partials, threads, total, base, rem,
                   block_start, i, ret, slotWrites, slotReads, combineCalls, transformCalls>>
    /\ UNCHANGED mainVars

\* lines 69-70: one iteration of the merge loop
Merge ==
    /\ pc = "merge"
    /\ merged < Len(partials)
    /\ LET slot == MergeSlot(merged) + 1
       IN  /\ result' = Op(op, result, partials[slot])
           /\ slotReads' = slotReads \cup {[by |-> "main", slot |-> slot - 1,
                                            seen |-> Len(slotWrites[slot]),
                                            pos |-> merged]}
    /\ merged' = merged + 1
    /\ combineCalls' = combineCalls + 1
    /\ UNCHANGED <<data, init, op, reqK, pc, n, K, partials, threads, total, base, rem,
                   block_start, i, joined, ret, slotWrites, transformCalls>>
    /\ UNCHANGED mainVars

\* line 72: return result
Return ==
    /\ pc = "merge"
    /\ merged = Len(partials)
    /\ ret' = result
    /\ pc' = "done"
    /\ UNCHANGED <<data, init, op, reqK, n, K, partials, threads, total, base, rem,
                   block_start, i, joined, result, merged, slotWrites, slotReads,
                   combineCalls, transformCalls>>
    /\ UNCHANGED mainVars

Next ==
    \/ EarlyReturn
    \/ Enter
    \/ Spawn
    \/ \E w \in 1..MaxK : WorkerCompute(w)
    \/ \E w \in 1..MaxK : WorkerStore(w)
    \/ Join
    \/ Merge
    \/ Return

Spec == Init /\ [][Next]_vars

\* the calling thread
MainThread == EarlyReturn \/ Enter \/ Spawn \/ Join \/ Merge \/ Return

\* the thread started by iteration w - 1 of the spawn loop
Worker(w) == WorkerCompute(w) \/ WorkerStore(w)

\* every started std::thread and the calling thread are scheduled eventually
FairSpec ==
    /\ Spec
    /\ WF_vars(MainThread)
    /\ \A w \in 1..MaxK : WF_vars(Worker(w))

\* ------------------------------------------------------------------ main
\* lines 80-84: the input sizes, scaled down from 100000, 1000000, 5000000
sizes == <<2, 3, 4>>

\* lines 89-90, 103: the value dist(rng) yields as draw number p after the
\* seeding with 42; a small integer stands for the double in [0, 1)
StreamValue(p) == (p * p + 1) % 3

\* lines 15-21: what measure_ms can return, in clock ticks
Times == 0..MaxTime

\* line 146: best_time = 1e18, above every time measure_ms can return
InitialBestTime == MaxTime + 1

\* line 93: if (!hw) hw = 1
HwOrDefault(h) == IF h = 0 THEN 1 ELSE h

SweepLimitExclusive(h) == h * 2 - 1

\* line 149: the sweep runs while K <= hw * 2
SweepLimit(h) == h * 2

BetterOrEqual(t, bt) == t <= bt

BetterGreater(t, bt) == t > bt

\* line 163: if (t < best_time)
Better(t, bt) == t < bt

RngReseeded(state) == 0

\* lines 89, 99-103: rng is declared outside the loop over sizes, so each
\* size starts from the state the previous one left
RngForSize(state) == state

RatioInverse(bk, h) == (2000 * h + bk) \div (2 * bk)

\* lines 78, 170: (double)best_K / hw printed with three decimals, in thousandths
Ratio(bk, h) == (2000 * bk + h) \div (2 * h)

\* lines 169-171: "Best K = " << best_K << ", K/hw = " << (double)best_K / hw
Summary(bk, h) == [kind |-> "best", K |-> bk, ratio |-> Ratio(bk, h)]

MainInit ==
    /\ data = << >>
    /\ op = "plus"
    /\ init = 0
    /\ reqK = 0
    /\ pc = "call"
    /\ n = 0
    /\ K = 0
    /\ partials = << >>
    /\ threads = << >>
    /\ total = 0 /\ base = 0 /\ rem = 0
    /\ block_start = 0
    /\ i = 0
    /\ joined = 0
    /\ result = 0
    /\ merged = 0
    /\ ret = 0
    /\ slotWrites = << >>
    /\ slotReads = {}
    /\ combineCalls = 0
    /\ transformCalls = 0
    /\ mpc = "start"
    /\ hint \in 0..MaxHw
    /\ hw = 0
    /\ rng = 0 /\ seedings = 0 /\ segments = << >>
    /\ sizeIdx = 0 /\ baseNo = 0 /\ sweepK = 0
    /\ best_time = 0 /\ best_K = 0
    /\ calls = << >>
    /\ sink = 0
    /\ out = << >>

engineRest == <<init, op, reqK, pc, n, K, partials, threads, total, base, rem,
                block_start, i, joined, result, merged, ret, slotWrites, slotReads,
                combineCalls, transformCalls>>

\* lines 76-97: seed the generator, query the hardware, print the thread count
Start ==
    /\ mpc = "start"
    /\ rng' = 0
    /\ seedings' = seedings + 1
    /\ hw' = HwOrDefault(hint)
    /\ out' = <<[kind |-> "hw", hw |-> hw']>>
    /\ sink' = 0
    /\ sizeIdx' = 1
    /\ mpc' = "size"
    /\ UNCHANGED <<data, engineRest, hint, segments, baseNo, sweepK, best_time, best_K, calls>>

\* lines 99-103: next size: print the header, fill data from the generator
BeginSize ==
    /\ mpc = "size"
    /\ sizeIdx <= Len(sizes)
    /\ LET size == sizes[sizeIdx]
           g0 == RngForSize(rng)
       IN  /\ data' = [k \in 1..size |-> StreamValue(g0 + k)]
           /\ rng' = g0 + size
           /\ segments' = Append(segments, [from |-> g0, to |-> g0 + size])
           /\ out' = <<[kind |-> "size", size |-> size]>>
    /\ baseNo' = 1
    /\ calls' = << >>
    /\ best_time' = 0 /\ best_K' = 0 /\ sweepK' = 0   \* block-scoped, not yet alive
    /\ mpc' = "base"
    /\ UNCHANGED <<engineRest, hint, hw, seedings, sizeIdx, sink>>

\* lines 105-147: one of the three reference runs (no policy, par, par_unseq),
\* timed and printed; after the third, the sweep is set up
Baseline ==
    /\ mpc = "base"
    /\ \E t \in Times :
          out' = Append(out, [kind |-> "baseline", no |-> baseNo, t |-> t])
    /\ sink' = TransformReduce(data, TZero("plus"), "plus")
    /\ IF baseNo < 3
       THEN /\ baseNo' = baseNo + 1
            /\ UNCHANGED <<mpc, best_time, best_K, sweepK>>
       ELSE /\ baseNo' = 0
            /\ best_time' = InitialBestTime
            /\ best_K' = 1
            /\ sweepK' = 1
            /\ mpc' = "sweep"
    /\ UNCHANGED <<data, engineRest, hint, hw, rng, seedings, segments, sizeIdx, calls>>

\* lines 149-167: one iteration of the sweep
SweepStep ==
    /\ mpc = "sweep"
    /\ sweepK <= SweepLimit(hw)
    /\ sink' = ManualReduce(data, TZero("plus"), "plus", sweepK)
    /\ calls' = Append(calls, sweepK)
    /\ \E t \in Times :
          /\ out' = Append(out, [kind |-> "row", K |-> sweepK, t |-> t])
          /\ IF Better(t, best_time)
             THEN best_time' = t /\ best_K' = sweepK
             ELSE UNCHANGED <<best_time, best_K>>
    /\ sweepK' = sweepK + 1
    /\ UNCHANGED <<data, engineRest, mpc, hint, hw, rng, seedings, segments, sizeIdx, baseNo>>

\* lines 149, 169-172: the sweep is over: print the summary, go to the next size
Report ==
    /\ mpc = "sweep"
    /\ ~(sweepK <= SweepLimit(hw))
    /\ out' = Append(out, Summary(best_K, hw))
    /\ sizeIdx' = sizeIdx + 1
    /\ mpc' = "size"
    /\ UNCHANGED <<data, engineRest, hint, hw, rng, seedings, segments, baseNo, sweepK,
                   best_time, best_K, calls, sink>>

\* line 174: return 0
Exit ==
    /\ mpc = "size"
    /\ ~(sizeIdx <= Len(sizes))
    /\ mpc' = "exit"
    /\ UNCHANGED <<data, engineRest, hint, hw, rng, seedings, segments, sizeIdx, baseNo,
                   sweepK, best_time, best_K, calls, sink, out>>

MainNext ==
    \/ Start
    \/ BeginSize
    \/ Baseline
    \/ SweepStep
    \/ Report
    \/ Exit

MainSpec == MainInit /\ [][MainNext]_vars

\* ------------------------------------------------------------ properties
Min(a, b) == IF a < b THEN a ELSE b

\* min(K, n): the effective worker count of the call
EffectiveK == Min(reqK, Len(data))

\* the call is past its degenerate-case test and has work to do
Working == pc \in {"spawn", "join", "merge", "done"} /\ Len(data) > 0 /\ reqK >= 1

\* every worker has been spawned
AllSpawned == pc \in {"join", "merge", "done"} /\ Len(data) > 0 /\ reqK >= 1

Returned == pc = "done"

\* C1: for a non-empty sequence and K >= 1, the call with init 0 and plus
\* returns the sequential fold of the transformed elements in every
\* interleaving; the example [1,2,3,4,5] with square gives 55 for every K.
C1_MatchesSequentialFold ==
    (Returned /\ op = "plus" /\ init = 0 /\ Len(data) > 0 /\ reqK >= 1)
        => /\ ret = TransformReduce(data, 0, "plus")
           /\ (data = Example => ret = 55)

C1_Witness ==
    /\ Returned /\ op = "plus" /\ init = 0 /\ data = Example
    /\ reqK = 6 /\ Len(threads) = 5 /\ ret = 55

\* C2: the blocks handed to the workers partition [0, n): the first starts
\* at 0, each starts where the previous one ends, the last ends at n, every
\* index lies in exactly one block and the sizes sum to n.
RECURSIVE SumSizes(_)
SumSizes(ths) ==
    IF ths = << >> THEN 0 ELSE (Head(ths).be - Head(ths).bs) + SumSizes(Tail(ths))

C2_BlocksPartition ==
    /\ (Working /\ threads # << >>) =>
          /\ threads[1].bs = 0
          /\ \A j \in 1..(Len(threads) - 1) : threads[j + 1].bs = threads[j].be
          /\ block_start = threads[Len(threads)].be
    /\ AllSpawned =>
          /\ threads[Len(threads)].be = Len(data)
          /\ \A x \in 0..(Len(data) - 1) :
                Cardinality({j \in 1..Len(threads) :
                                threads[j].bs <= x /\ x < threads[j].be}) = 1
          /\ SumSizes(threads) = Len(data)

C2_Witness ==
    /\ pc = "join" /\ Len(data) = 3 /\ reqK = 2
    /\ threads[1].bs = 0 /\ threads[1].be = 2
    /\ threads[2].bs = 2 /\ threads[2].be = 3

\* C3: with K' the effective worker count, block i has size n / K' + 1 when
\* i < n % K' and n / K' otherwise, so two block sizes differ by at most one
\* and the first n % K' blocks carry the extra element.
C3_BlockSizes ==
    Working =>
        /\ \A j \in 1..Len(threads) :
              threads[j].be - threads[j].bs =
                  (Len(data) \div EffectiveK)
                  + (IF j - 1 < Len(data) % EffectiveK THEN 1 ELSE 0)
        /\ \A j, k \in 1..Len(threads) :
              LET sj == threads[j].be - threads[j].bs
                  sk == threads[k].be - threads[k].bs
              IN  /\ sj - sk \in {-1, 0, 1}
                  /\ (j < k) => sj >= sk

C3_Witness ==
    /\ pc = "join" /\ data = Example /\ reqK = 3
    /\ threads[1].be - threads[1].bs = 2
    /\ threads[2].be - threads[2].bs = 2
    /\ threads[3].be - threads[3].bs = 1

\* C4: when the sequence is empty or K is 0 the call returns init unchanged,
\* spawns no worker, allocates no partial slot and applies neither the
\* combine nor the transform operation.
C4_Degenerate ==
    (pc # "call" /\ (Len(data) = 0 \/ reqK = 0)) =>
        /\ Returned
        /\ ret = init
        /\ threads = << >>
        /\ partials = << >>
        /\ combineCalls = 0
        /\ transformCalls = 0

C4_Witness ==
    /\ Returned /\ reqK = 0 /\ data = Example /\ op = "plus" /\ init = 1 /\ ret = 1
    /\ threads = << >>

\* C5: for n > 0 and K >= 1 exactly min(K, n) workers are spawned over the
\* whole call, never more workers than elements, one worker per block index.
C5_WorkerCount ==
    /\ Working =>
          /\ Len(threads) <= EffectiveK
          /\ Len(threads) <= Len(data)
          /\ \A j \in 1..Len(threads) : threads[j].i = j - 1
    /\ AllSpawned => Len(threads) = EffectiveK

C5_Witness ==
    /\ Returned /\ Len(data) = 2 /\ reqK = 5 /\ Len(threads) = 2

\* C6: join barrier: the merge reads no partial slot and the call does not
\* return until every spawned worker has finished.
C6_JoinBarrier ==
    (pc \in {"merge", "done"} \/ slotReads # {} \/ merged > 0) =>
        \A w \in 1..Len(threads) : threads[w].st = "finished"

C6_Witness ==
    /\ pc = "merge" /\ merged = 1 /\ Len(threads) = 3
    /\ \A w \in 1..Len(threads) : threads[w].st = "finished"

\* C7: race freedom on the partials: worker i stores only into slot i and
\* exactly once, no two workers store into the same slot, no worker reads a
\* slot, and the merge reads a slot only after its single store.
C7_RaceFree ==
    /\ \A s \in 1..Len(slotWrites) :
          /\ Len(slotWrites[s]) <= 1
          /\ \A k \in 1..Len(slotWrites[s]) : slotWrites[s][k] = s - 1
    /\ \A w \in 1..Len(threads) :
          /\ threads[w].i + 1 \in 1..Len(slotWrites)
          /\ slotWrites[threads[w].i + 1] =
                (IF threads[w].st = "finished" THEN <<threads[w].i>> ELSE << >>)
    /\ \A r \in slotReads : r.by = "main" /\ r.seen = 1

C7_Witness ==
    /\ Returned /\ Len(threads) = 3
    /\ \A s \in 1..3 : slotWrites[s] = <<s - 1>>
    /\ Cardinality(slotReads) = 3

\* C8: the merge folds the partials in block index order starting from init,
\* result = op(...op(op(init, partial_0), partial_1)..., partial_{K-1}),
\* whatever order the workers finish in; with concatenation the result keeps
\* the element order.
RECURSIVE Nested(_, _, _)
Nested(o, v, ps) ==
    IF ps = << >> THEN v
    ELSE Op(o, Nested(o, v, SubSeq(ps, 1, Len(ps) - 1)), ps[Len(ps)])

C8_MergeInOrder ==
    /\ \A r \in slotReads : r.slot = r.pos
    /\ (pc = "merge" /\ Len(data) > 0 /\ reqK >= 1) =>
          result = Nested(op, init, SubSeq(partials, 1, merged))
    /\ (Returned /\ Len(data) > 0 /\ reqK >= 1) =>
          /\ ret = Nested(op, init, partials)
          /\ (op = "concat" => ret = init \o data)

C8_Witness ==
    /\ Returned /\ op = "concat" /\ data = Example /\ init = <<0>>
    /\ Len(threads) = 3 /\ ret = <<0, 1, 2, 3, 4, 5>>

\* the identity of each combine operation
Identity(o) == CASE o = "plus" -> 0 [] o = "times" -> 1 [] o = "concat" -> << >>

Samples(o) == IF o = "concat" THEN {<< >>, <<1>>, <<1, 2>>} ELSE 0..3

IsNeutral(o, v) == \A x \in Samples(o) : Op(o, x, v) = x /\ Op(o, v, x) = x

\* C9: each worker's local fold is seeded with the identity of the
\* caller-supplied combine operation, for every combine operation.
C9_SeedIsIdentity ==
    \A w \in 1..Len(threads) : IsNeutral(op, threads[w].seed)

\* C10: the caller's init is applied exactly once, in the merge:
\* reduce(seq, init, op, f, K) = op(init, reduce(seq, identity, op, f, K))
\* for every sequence, init and K >= 1.
C10_InitAppliedOnce ==
    (Returned /\ reqK >= 1) =>
        ret = Op(op, init, ManualReduce(data, Identity(op), op, reqK))

C10_Witness ==
    /\ Returned /\ op = "plus" /\ init = 1 /\ data = Example /\ Len(threads) = 2
    /\ ret = 56

\* C11: for K >= 1 and n > 0 no worker is given an empty block: after the
\* clamp of K to n every block has at least one element.
C11_NoEmptyBlock ==
    Working => \A w \in 1..Len(threads) : threads[w].be - threads[w].bs >= 1

C11_Witness ==
    /\ pc = "join" /\ reqK = 6 /\ Len(data) = 3 /\ Len(threads) = 3
    /\ \A w \in 1..3 : threads[w].be - threads[w].bs = 1

\* C12: no worker reads the sequence outside its own block [start_i, end_i),
\* and nothing writes the sequence between the start and the return of the
\* call.
C12_ReadsOwnBlockOnly ==
    /\ [](\A w \in 1..Len(threads) :
            /\ threads[w].rd \subseteq threads[w].bs..(threads[w].be - 1)
            /\ threads[w].rd \subseteq 0..(Len(data) - 1)
            /\ \A v \in 1..Len(threads) :
                  v # w => threads[v].rd \cap (threads[w].bs..(threads[w].be - 1)) = {})
    /\ [][data' = data]_vars

C12_Witness ==
    /\ Returned /\ data = Example /\ Len(threads) = 2
    /\ threads[1].rd = {0, 1, 2} /\ threads[2].rd = {3, 4}

\* C13: under fair scheduling every call runs to completion: every spawned
\* worker finishes, every join returns and the call returns; no state
\* before the return is a deadlock.
C13_Terminates ==
    /\ [](pc # "done" => ENABLED Next)
    /\ <>(/\ pc = "done"
          /\ joined = Len(threads)
          /\ \A w \in 1..Len(threads) : threads[w].st = "finished")

C13_Witness ==
    /\ Returned /\ Len(threads) = 3 /\ joined = 3 /\ merged = 3
    /\ \A w \in 1..3 : threads[w].st = "finished"

\* C19: workers run while the spawn loop is still creating later workers,
\* and the block bounds and slot index of a spawned worker are fixed at spawn
\* time: no later step changes them, and the worker stores into the slot of
\* its spawn position.
C19_ClosureFixedAtSpawn ==
    /\ [][/\ Len(threads') >= Len(threads)
          /\ \A w \in 1..Len(threads) :
                /\ threads'[w].i = threads[w].i
                /\ threads'[w].bs = threads[w].bs
                /\ threads'[w].be = threads[w].be]_vars
    /\ [](\A w \in 1..Len(threads) :
            /\ threads[w].i = w - 1
            /\ threads[w].st # "running" => threads[w].rd = threads[w].bs..(threads[w].be - 1)
            /\ threads[w].st = "finished" => slotWrites[w] = <<w - 1>>)

C19_Witness ==
    /\ pc = "spawn" /\ i = 1 /\ K = 3 /\ Len(threads) = 1
    /\ threads[1].st = "finished" /\ slotWrites[1] = <<0>>

\* C20: partials is sized to the effective worker count before the first
\* worker is spawned and keeps that size; every slot a worker writes and
\* every slot the merge reads is within 0..effective_K-1, and the merge reads
\* exactly effective_K slots.
C20_PartialsSized ==
    /\ [](Working =>
            /\ Len(partials) = EffectiveK
            /\ Len(slotWrites) = EffectiveK
            /\ \A w \in 1..Len(threads) : threads[w].i \in 0..(EffectiveK - 1)
            /\ \A r \in slotReads : r.slot \in 0..(EffectiveK - 1)
            /\ Returned => (merged = EffectiveK /\ Cardinality(slotReads) = EffectiveK))
    /\ [][pc # "call" => Len(partials') = Len(partials)]_vars

C20_Witness ==
    /\ Returned /\ reqK = 5 /\ Len(data) = 2 /\ Len(partials) = 2
    /\ merged = 2 /\ Cardinality(slotReads) = 2

\* ------------------------------------------------- properties of main
\* the rows of the K -> time table printed for the current size
Rows == SelectSeq(out, LAMBDA l : l.kind = "row")

\* the summary lines printed for the current size
Summaries == SelectSeq(out, LAMBDA l : l.kind = "best")

\* the position in the table of the row for worker count k
RowOf(k) == (CHOOSE j \in 1..Len(Rows) : Rows[j].K = k)

EffectiveHw == IF hint = 0 THEN 1 ELSE hint

\* C14: after the sweep the time recorded for the reported best K is at most
\* the time recorded for every other K of that size's table, for every
\* assignment of measured times.
C14_BestIsMinimum ==
    \A b \in 1..Len(Summaries) :
        /\ \E j \in 1..Len(Rows) : Rows[j].K = Summaries[b].K
        /\ \A j \in 1..Len(Rows) : Rows[RowOf(Summaries[b].K)].t <= Rows[j].t

C14_Witness ==
    /\ Len(Summaries) = 1 /\ Len(Rows) = 4 /\ Summaries[1].K = 3
    /\ Rows[1].t = 1 /\ Rows[2].t = 1 /\ Rows[3].t = 0 /\ Rows[4].t = 1

\* C15: when several K share the minimal recorded time the reported best K
\* is the smallest of them: a later K with a time equal to the current
\* minimum never replaces the current best K.
C15_FirstMinimumWins ==
    /\ \A b \in 1..Len(Summaries) :
          \A j \in 1..Len(Rows) :
              Rows[j].t = Rows[RowOf(Summaries[b].K)].t => Summaries[b].K <= Rows[j].K
    /\ (mpc = "sweep" /\ Rows # << >>) =>
          /\ best_time = Rows[RowOf(best_K)].t
          /\ \A j \in 1..Len(Rows) :
                Rows[j].t = best_time => best_K <= Rows[j].K

C15_Witness ==
    /\ Len(Summaries) = 1 /\ Len(Rows) = 4 /\ Summaries[1].K = 2
    /\ Rows[1].t = 1 /\ Rows[2].t = 0 /\ Rows[3].t = 0 /\ Rows[4].t = 0

\* C16: for each size the sweep invokes the engine exactly once for every K
\* in 1..2*hw, in increasing order and for no other K, where hw is the
\* concurrency hint, or 1 when the hint is 0.
C16_SweepRange ==
    /\ \A j \in 1..Len(calls) : calls[j] = j
    /\ Len(calls) <= 2 * EffectiveHw
    /\ mpc # "start" => hw = EffectiveHw
    /\ Summaries # << >> => Len(calls) = 2 * EffectiveHw

C16_Witness ==
    /\ hint = 0 /\ Summaries # << >> /\ calls = <<1, 2>> /\ sizeIdx = 3

\* C17: the generator is seeded once per run and never re-seeded between
\* sizes: the state at the start of a size's generation is the state left
\* by the previous size's, so the sizes consume consecutive segments of one
\* stream.
C17_OneStream ==
    /\ seedings <= 1
    /\ mpc # "start" => seedings = 1
    /\ \A k \in 1..Len(segments) :
          /\ segments[k].from = (IF k = 1 THEN 0 ELSE segments[k - 1].to)
          /\ segments[k].to = segments[k].from + sizes[k]
    /\ segments # << >> =>
          /\ rng = segments[Len(segments)].to
          /\ data = [k \in 1..sizes[Len(segments)] |->
                        StreamValue(segments[Len(segments)].from + k)]

C17_Witness ==
    /\ Len(segments) = 3 /\ segments[3].from = 5 /\ segments[3].to = 9
    /\ data = <<StreamValue(6), StreamValue(7), StreamValue(8), StreamValue(9)>>

\* C18: the report emitted after the sweep contains the best K, the recorded
\* time of that best K, and the ratio best K / hardware_parallelism.
C18_SummaryHasTime ==
    \A b \in 1..Len(Summaries) :
        /\ Summaries[b].K = best_K
        /\ "t" \in DOMAIN Summaries[b]
        /\ Summaries[b].t = best_time

\* C18 as amended: the line emitted after the sweep contains the best K and
\* the ratio best K / hardware_parallelism (to three decimals) and no time;
\* the recorded time of the best K is in its row of the table.
C18_SummaryKAndRatio ==
    \A b \in 1..Len(Summaries) :
        /\ DOMAIN Summaries[b] = {"kind", "K", "ratio"}
        /\ Summaries[b].K = best_K
        /\ LET d == Summaries[b].ratio * hw - 1000 * best_K
           IN  -hw <= 2 * d /\ 2 * d <= hw
        /\ \E j \in 1..Len(Rows) : Rows[j].K = best_K /\ Rows[j].t = best_time

C18_Witness ==
    /\ Len(Summaries) = 1 /\ hw = 2 /\ best_K = 3 /\ best_time = 0
    /\ Summaries[1].K = 3 /\ Summaries[1].ratio = 1500

====
